---------------------------- MODULE Spec2Model ----------------------------
(***************************************************************************)
(* A model of ctd/plotting.py: get_maxdepth, extrap_sec and gen_topomask.  *)
(*                                                                         *)
(* Floating point values are modelled as extended rationals <<n, d>> in    *)
(* lowest terms with d >= 0:  d > 0 is the finite value n/d,  <<1, 0>> and *)
(* <<-1, 0>> are +inf and -inf, and <<0, 0>> is NaN (the "no value"        *)
(* marker).  Arithmetic follows IEEE-754 for inf and NaN (x/0 = +-inf,     *)
(* 0/0 = NaN, 0*inf = NaN, NaN absorbs); rounding and signed zeros are not *)
(* modelled, finite arithmetic is exact.                                   *)
(***************************************************************************)
EXTENDS Integers, Sequences, FiniteSets, TLC

VARIABLES pc,         \* position of the call in progress
          data,       \* the grid [depth level][station] handed to the call
          index,      \* the depth/pressure levels (DataFrame index, `depth`)
          dist,       \* cumulative station distance (`dist`, `x`)
          w1, w2,     \* blend weights of extrap_sec
          new_data1,  \* extrap_sec: rows extrapolated against dist
          new_data2,  \* extrap_sec: columns extrapolated against depth
          new_data,   \* extrap_sec: the returned grid
          G0,         \* the grid of the first extrap_sec call
          results,    \* the grids returned by the successive extrap_sec calls
          h,          \* get_maxdepth result / gen_topomask input
          legs,       \* gsw.distance(lon, lat)[0] / 1e3, one per station pair
          dx,         \* horizontal resolution
          xm, hm      \* gen_topomask result

vars == <<pc, data, index, dist, w1, w2, new_data1, new_data2, new_data,
          G0, results, h, legs, dx, xm, hm>>

-----------------------------------------------------------------------------
(* Bounds of the model *)

MaxVal == 1

MaxCalls == 2

MaxLeg == 2

MaxP == 2

-----------------------------------------------------------------------------
(* Extended rational arithmetic (numpy float64 without rounding) *)

NaN == <<0, 0>>

PInf == <<1, 0>>

R(n) == <<n, 1>>

Abs(n) == IF n < 0 THEN -n ELSE n

Sgn(n) == IF n < 0 THEN -1 ELSE IF n > 0 THEN 1 ELSE 0

RECURSIVE GCD(_, _)
GCD(a, b) == IF b = 0 THEN a ELSE GCD(b, a % b)

Norm(n, d) ==
    IF d = 0 THEN <<Sgn(n), 0>>
    ELSE LET g == GCD(Abs(n), Abs(d))
         IN  <<(Sgn(d) * n) \div g, Abs(d) \div g>>

isnan(a) == a = NaN

IsInf(a) == a[2] = 0 /\ a[1] # 0

IsFinite(a) == a[2] > 0

Neg(a) == <<-a[1], a[2]>>

Add(a, b) ==
    IF isnan(a) \/ isnan(b) THEN NaN
    ELSE IF IsInf(a) /\ IsInf(b) THEN (IF a = b THEN a ELSE NaN)
    ELSE IF IsInf(a) THEN a
    ELSE IF IsInf(b) THEN b
    ELSE LET g == GCD(a[2], b[2])
         IN  Norm(a[1] * (b[2] \div g) + b[1] * (a[2] \div g),
                  (a[2] \div g) * b[2])

Sub(a, b) == Add(a, Neg(b))

Mul(a, b) ==
    IF isnan(a) \/ isnan(b) THEN NaN
    ELSE IF a[2] = 0 \/ b[2] = 0 THEN <<Sgn(a[1]) * Sgn(b[1]), 0>>
    ELSE LET g == GCD(Abs(a[1]), b[2])
             k == GCD(Abs(b[1]), a[2])
         IN  Norm((a[1] \div g) * (b[1] \div k), (a[2] \div k) * (b[2] \div g))

Inv(a) ==
    IF isnan(a) THEN NaN
    ELSE IF IsInf(a) THEN R(0)
    ELSE IF a[1] = 0 THEN PInf
    ELSE Norm(a[2], a[1])

Div(a, b) == Mul(a, Inv(b))

\* a < b on finite values; every comparison with NaN is false
Less(a, b) == IsFinite(a) /\ IsFinite(b) /\ a[1] * b[2] < b[1] * a[2]

-----------------------------------------------------------------------------
(* Array helpers *)

NRows(g) == Len(g)

NCols(g) == IF Len(g) = 0 THEN 0 ELSE Len(g[1])

Transpose(g) == [j \in 1..NCols(g) |-> [i \in 1..NRows(g) |-> g[i][j]]]

Rats(s) == [k \in 1..Len(s) |-> R(s[k])]

\* ~np.isnan(row)
NotNanMask(row) == [k \in 1..Len(row) |-> ~isnan(row[k])]

\* the positions selected by a boolean mask, in order
MaskIdx(mask) == SelectSeq([k \in 1..Len(mask) |-> k], LAMBDA k : mask[k])

\* a[mask]
Take(a, mask) == LET ix == MaskIdx(mask) IN [k \in 1..Len(ix) |-> a[ix[k]]]

RECURSIVE SeqMax(_)
SeqMax(s) ==
    IF Len(s) = 1 THEN s[1]
    ELSE LET m == SeqMax(Tail(s)) IN IF Less(s[1], m) THEN m ELSE s[1]

-----------------------------------------------------------------------------
(* get_maxdepth *)

\* self.apply(Series.notnull).values : one boolean per [depth level][station]
notnull(self) ==
    [i \in 1..NRows(self) |-> [j \in 1..NCols(self) |-> ~isnan(self[i][j])]]

\* numpy's value of a boolean in a product: True is 1, False is 0
BoolNum(b) == IF b THEN R(1) ELSE R(0)

\* the get_maxdepth of a version that stops scanning at the first missing value
get_maxdepth_first_gap(self, self_index) ==
    [s \in 1..NCols(self) |->
        LET run == {d \in 1..NRows(self) :
                       \A e \in 1..d : ~isnan(self[e][s])}
        IN  IF run = {} THEN R(0)
            ELSE R(self_index[CHOOSE d \in run : \A e \in run : e <= d])]

\* np.float_(self.index * valid_last_depth).max(axis=1)
get_maxdepth(self, self_index) ==
    LET valid_last_depth == Transpose(notnull(self))
    IN  [s \in 1..Len(valid_last_depth) |->
            SeqMax([d \in 1..Len(self_index) |->
                       Mul(R(self_index[d]), BoolNum(valid_last_depth[s][d]))])]

-----------------------------------------------------------------------------
(* extrap_sec *)

\* scipy's linear interp1d evaluated at x_new inside [x[0], x[-1]]:
\* searchsorted (side left), clipped to 1..len(x)-1, then the chord through
\* the two neighbouring nodes
call_linear(x, y, x_new) ==
    LET found == Cardinality({k \in 1..Len(x) : Less(x[k], x_new)})
        clip  == IF found < 1 THEN 1
                 ELSE IF found > Len(x) - 1 THEN Len(x) - 1 ELSE found
        lo    == clip
        hi    == clip + 1
        slope == Div(Sub(y[hi], y[lo]), Sub(x[hi], x[lo]))
    IN  Add(Mul(slope, Sub(x_new, x[lo])), y[lo])

\* utilities.extrap1d(interp1d(x, y)) evaluated at one point
extrap1d(xs, ys, x) ==
    LET n == Len(xs)
    IN  IF Less(x, xs[1])
        THEN Add(ys[1], Mul(Div(Sub(ys[2], ys[1]), Sub(xs[2], xs[1])),
                            Sub(x, xs[1])))
        ELSE IF Less(xs[n], x)
        THEN Add(ys[n], Mul(Div(Sub(ys[n], ys[n - 1]), Sub(xs[n], xs[n - 1])),
                            Sub(x, xs[n])))
        ELSE call_linear(xs, ys, x)

\* np.repeat(y, n) for a one-element y
repeat(v, n) == [k \in 1..n |-> v]

\* the loop body with the single-value branch lost: the line is left as it is
extrap_line_no_repeat(line, axis) ==
    LET mask == NotNanMask(line)
        y    == Take(line, mask)
    IN  IF Len(y) < 2 THEN line
        ELSE LET x == Take(axis, mask)
             IN  [k \in 1..Len(axis) |-> extrap1d(x, y, axis[k])]

\* the body of both loops of extrap_sec, for one row (axis = dist) or one
\* column (axis = depth)
extrap_line(line, axis) ==
    LET mask == NotNanMask(line)
        y    == Take(line, mask)
    IN  IF Len(y) = 0 THEN line
        ELSE IF Len(y) = 1 THEN repeat(y[1], Len(mask))
        ELSE LET x == Take(axis, mask)
             IN  [k \in 1..Len(axis) |-> extrap1d(x, y, axis[k])]

\* the blend with the weights exchanged
blend_swapped(a, b, wa, wb) ==
    LET bT == Transpose(b)
    IN  [i \in 1..NRows(a) |-> [j \in 1..NCols(a) |->
            Add(Mul(a[i][j], wb), Mul(bT[i][j], wa))]]

\* the blend that leaves out a pass whose weight is zero
blend_skip_zero(a, b, wa, wb) ==
    LET bT == Transpose(b)
    IN  [i \in 1..NRows(a) |-> [j \in 1..NCols(a) |->
            IF wb = R(0) THEN Mul(a[i][j], wa)
            ELSE IF wa = R(0) THEN Mul(bT[i][j], wb)
            ELSE Add(Mul(a[i][j], wa), Mul(bT[i][j], wb))]]

\* np.array(new_data1) * w1 + np.array(new_data2).T * w2
blend(a, b, wa, wb) ==
    LET bT == Transpose(b)
    IN  [i \in 1..NRows(a) |-> [j \in 1..NCols(a) |->
            Add(Mul(a[i][j], wa), Mul(bT[i][j], wb))]]

-----------------------------------------------------------------------------
(* gen_topomask *)

\* np.append(0, np.cumsum(gsw.distance(lon, lat)[0] / 1e3))
RECURSIVE cumdist(_)
cumdist(d) ==
    IF Len(d) = 0 THEN <<R(0)>>
    ELSE LET front == cumdist(SubSeq(d, 1, Len(d) - 1))
         IN  Append(front, Add(front[Len(front)], R(d[Len(d)])))

\* -gsw.z_from_p(p, lat.mean()): the depth in metres of a pressure in dbar,
\* here the leading term of the conversion, 0.99 m per dbar at every latitude
neg_z_from_p(p) == Mul(p, Norm(99, 100))

\* the smallest integer that is not below the finite value a
Ceil(a) == -((-a[1]) \div a[2])

\* np.arange(start, stop, step): ceil((stop - start) / step) values
arange(start, stop, step) ==
    LET len == Ceil(Div(Sub(stop, start), step))
    IN  [k \in 1..(IF len < 0 THEN 0 ELSE len) |->
            Add(start, Mul(R(k - 1), step))]

\* interp1d(x, y, bounds_error=False, fill_value=fill)(x_new)
interp1d_fill(x, y, fill_value, x_new) ==
    IF Less(x_new, x[1]) \/ Less(x[Len(x)], x_new) THEN fill_value
    ELSE call_linear(x, y, x_new)

\* the resampled distances with the end of the range left at x.max()
topo_xm_open(x, step) == arange(R(0), SeqMax(x), step)

\* xm = np.arange(0, x.max() + dx, dx)
topo_xm(x, step) == arange(R(0), Add(SeqMax(x), step), step)

\* the resampled depths with the linear continuation of extrap_sec
topo_hm_linear(x, hc, q) == [k \in 1..Len(q) |-> extrap1d(x, hc, q[k])]

\* Ih = interp1d(x, h, kind, bounds_error=False, fill_value=h[-1]); Ih(xm)
topo_hm(x, hc, q) ==
    [k \in 1..Len(q) |-> interp1d_fill(x, hc, hc[Len(hc)], q[k])]

-----------------------------------------------------------------------------
(* Inputs *)

Cells == {NaN} \cup {R(v) : v \in 0..MaxVal}

AllGrids(nr, nc) == [1..nr -> [1..nc -> Cells]]

\* every way of knocking values out of one grid
MaskedGrids(base) ==
    {[i \in 1..NRows(base) |-> [j \in 1..NCols(base) |->
         IF m[i][j] THEN R(base[i][j]) ELSE NaN]] :
       m \in [1..NRows(base) -> [1..NCols(base) -> BOOLEAN]]}

\* the station of the specification's example: values at 10, 20, ..., 50
ExampleDepths == <<10, 20, 30, 40, 50>>

ExampleStation == << <<R(1)>>, <<R(2)>>, <<NaN>>, <<R(4)>>, <<NaN>> >>

\* five depth levels by three stations, the upper left triangle missing
TriangleGrid ==
    << <<NaN,  NaN,  R(7)>>,
       <<NaN,  R(5), R(6)>>,
       <<R(3), R(4), R(6)>>,
       <<R(2), R(4), R(5)>>,
       <<R(1), R(2), R(4)>> >>

MaxDepthCases ==
    {[depth |-> z, grids |-> AllGrids(3, 2)] :
        z \in {<<10, 20, 30>>, <<0, 5, 15>>, <<-30, -20, -10>>, <<-5, 0, 5>>}}
    \cup {[depth |-> ExampleDepths, grids |-> {ExampleStation}]}

ExtrapCases ==
    {[dist |-> <<0, 1, 3>>, depth |-> <<10, 20>>, grids |-> AllGrids(2, 3)],
     [dist |-> <<0, 2, 2>>, depth |-> <<-5, 5>>,
      grids |-> MaskedGrids(<< <<2, 1, 3>>, <<1, 4, 4>> >>)],
     [dist |-> <<0, 0, 3>>, depth |-> <<0, 10>>,
      grids |-> MaskedGrids(<< <<1, 2, 4>>, <<0, 0, 1>> >>)],
     [dist |-> <<0, 4>>, depth |-> <<0, 10, 40>>, grids |-> AllGrids(3, 2)],
     [dist |-> <<0, 1, 3>>, depth |-> <<10, 20, 40>>,
      grids |-> MaskedGrids(<< <<1, 2, 4>>, <<3, 0, 5>>, <<2, 6, 1>> >>)],
     [dist |-> <<0, 1, 1, 2>>, depth |-> <<10, 20>>,
      grids |-> MaskedGrids(<< <<1, 2, 4, 3>>, <<0, 3, 1, 2>> >>)],
     [dist |-> <<0, 10, 20>>, depth |-> ExampleDepths,
      grids |-> {TriangleGrid}]}

\* (w1, w2): the defaults of extrap_sec, the opposite, and plot_section's
Weights == {<<R(1), R(0)>>, <<R(0), R(1)>>, <<Norm(97, 100), Norm(3, 100)>>}

Resolutions == {Norm(1, 2), R(1), R(2), R(3)}

-----------------------------------------------------------------------------
(* The calls *)

InitMaxDepth ==
    /\ \E c \in MaxDepthCases : \E g \in c.grids :
          /\ index = c.depth
          /\ data = g
    /\ pc = "get_maxdepth"
    /\ dist = <<>> /\ w1 = R(1) /\ w2 = R(0)
    /\ new_data1 = <<>> /\ new_data2 = <<>> /\ new_data = <<>>
    /\ G0 = <<>> /\ results = <<>>
    /\ h = <<>> /\ legs = <<>> /\ dx = R(1) /\ xm = <<>> /\ hm = <<>>

InitExtrap ==
    /\ \E c \in ExtrapCases : \E g \in c.grids :
          /\ index = c.depth
          /\ dist = c.dist
          /\ data = g
          /\ G0 = g
    /\ \E w \in Weights : w1 = w[1] /\ w2 = w[2]
    /\ pc = "extrap_rows"
    /\ new_data1 = <<>> /\ new_data2 = <<>> /\ new_data = <<>>
    /\ results = <<>>
    /\ h = <<>> /\ legs = <<>> /\ dx = R(1) /\ xm = <<>> /\ hm = <<>>

InitTopo ==
    /\ \E n \in 2..3 :
          /\ h \in [1..n -> {R(100 * p) : p \in 0..MaxP}]
          /\ legs \in [1..(n - 1) -> 0..MaxLeg]
    /\ dx \in Resolutions
    /\ pc = "gen_topomask"
    /\ data = <<>> /\ index = <<>> /\ dist = <<>> /\ w1 = R(1) /\ w2 = R(0)
    /\ new_data1 = <<>> /\ new_data2 = <<>> /\ new_data = <<>>
    /\ G0 = <<>> /\ results = <<>>
    /\ xm = <<>> /\ hm = <<>>

\* h = data.get_maxdepth()
GetMaxdepth ==
    /\ pc = "get_maxdepth"
    /\ h' = get_maxdepth(data, index)
    /\ pc' = "maxdepth_done"
    /\ UNCHANGED <<data, index, dist, w1, w2, new_data1, new_data2, new_data,
                   G0, results, legs, dx, xm, hm>>

\* extrap_sec, first loop: every row against dist
ExtrapRows ==
    /\ pc = "extrap_rows"
    /\ new_data1' = [i \in 1..NRows(data) |-> extrap_line(data[i], Rats(dist))]
    /\ pc' = "extrap_cols"
    /\ UNCHANGED <<data, index, dist, w1, w2, new_data2, new_data,
                   G0, results, h, legs, dx, xm, hm>>

\* extrap_sec, second loop: every column of data.T against depth
ExtrapCols ==
    /\ pc = "extrap_cols"
    /\ new_data2' = [j \in 1..NCols(data) |->
                        extrap_line(Transpose(data)[j], Rats(index))]
    /\ pc' = "extrap_blend"
    /\ UNCHANGED <<data, index, dist, w1, w2, new_data1, new_data,
                   G0, results, h, legs, dx, xm, hm>>

\* extrap_sec, the weighted sum and the return
ExtrapBlend ==
    /\ pc = "extrap_blend"
    /\ new_data' = blend(new_data1, new_data2, w1, w2)
    /\ results' = Append(results, new_data')
    /\ pc' = "extrap_done"
    /\ UNCHANGED <<data, index, dist, w1, w2, new_data1, new_data2,
                   G0, h, legs, dx, xm, hm>>

\* the caller hands the returned grid to extrap_sec again
ExtrapAgain ==
    /\ pc = "extrap_done"
    /\ Len(results) < MaxCalls
    /\ data' = new_data
    /\ new_data1' = <<>> /\ new_data2' = <<>> /\ new_data' = <<>>
    /\ pc' = "extrap_rows"
    /\ UNCHANGED <<index, dist, w1, w2, G0, results, h, legs, dx, xm, hm>>

\* xm, hm = gen_topomask(h, lon, lat, dx)
GenTopomask ==
    /\ pc = "gen_topomask"
    /\ LET x  == cumdist(legs)
           hc == [k \in 1..Len(h) |-> neg_z_from_p(h[k])]
       IN  /\ xm' = topo_xm(x, dx)
           /\ hm' = topo_hm(x, hc, xm')
    /\ pc' = "topomask_done"
    /\ UNCHANGED <<data, index, dist, w1, w2, new_data1, new_data2, new_data,
                   G0, results, h, legs, dx>>

NextMaxDepth == GetMaxdepth

NextExtrap == ExtrapRows \/ ExtrapCols \/ ExtrapBlend \/ ExtrapAgain

NextTopo == GenTopomask

SpecMaxDepth == InitMaxDepth /\ [][NextMaxDepth]_vars

SpecExtrap == InitExtrap /\ [][NextExtrap]_vars

SpecTopo == InitTopo /\ [][NextTopo]_vars

Init == InitMaxDepth \/ InitExtrap \/ InitTopo

Next == GetMaxdepth \/ ExtrapRows \/ ExtrapCols \/ ExtrapBlend \/ ExtrapAgain
        \/ GenTopomask

Spec == Init /\ [][Next]_vars

-----------------------------------------------------------------------------
(* Vocabulary of the properties *)

\* the positions of a row or column that hold a value
Valid(line) == {k \in 1..Len(line) : ~isnan(line[k])}

Column(g, j) == [i \in 1..NRows(g) |-> g[i][j]]

MaxOf(S) == CHOOSE m \in S : \A e \in S : e <= m

Distinct(s) == \A a, b \in 1..Len(s) : a # b => s[a] # s[b]

\* station j lies strictly between two stations that hold a value in the row
StrictlyInside(row, j) ==
    \E a, b \in Valid(row) : dist[a] < dist[j] /\ dist[j] < dist[b]

RowsDone == pc \in {"extrap_cols", "extrap_blend", "extrap_done"}

ColsDone == pc \in {"extrap_blend", "extrap_done"}

\* the row pass and the column pass of the grid in hand, as [depth][station]
RowPass == [i \in 1..NRows(data) |-> extrap_line(data[i], Rats(dist))]

ColPass ==
    Transpose([j \in 1..NCols(data) |->
                  extrap_line(Column(data, j), Rats(index))])

Weighted(wa, a, wb, b) ==
    [i \in 1..NRows(a) |-> [j \in 1..NCols(a) |->
        Add(Mul(wa, a[i][j]), Mul(wb, b[i][j]))]]

LastStation == cumdist(legs)[Len(legs) + 1]

LastSample == xm[Len(xm)]

-----------------------------------------------------------------------------
(* get_maxdepth *)

\* C1: get_maxdepth returns one value per station, and for every station
\* with a valid value that value is the level at the deepest valid index,
\* whatever the sign of the levels.
C1_DeepestValidLevel ==
    pc = "maxdepth_done" =>
        /\ Len(h) = NCols(data)
        /\ \A s \in 1..NCols(data) :
              Valid(Column(data, s)) # {} =>
                 h[s] = R(index[MaxOf(Valid(Column(data, s)))])

\* C2 as amended: for the station [1, 2, missing, 4, missing] at depths
\* [10, 20, 30, 40, 50] get_maxdepth returns 40, the level of the deepest
\* valid value.
C2_ExampleReturns40 ==
    (pc = "maxdepth_done" /\ data = ExampleStation /\ index = ExampleDepths)
        => h = <<R(40)>>

\* C2, witness: get_maxdepth has returned for the example station.
C2_ExampleDone ==
    pc = "maxdepth_done" /\ data = ExampleStation /\ index = ExampleDepths
    /\ Len(h) = 1

\* C2 as stated: for that station get_maxdepth returns 20.
C2_ExampleReturns20 ==
    (pc = "maxdepth_done" /\ data = ExampleStation /\ index = ExampleDepths)
        => h = <<R(20)>>

\* C3: a station without any valid value gets the no-value marker, never a
\* number.
C3_EmptyStationIsNaN ==
    pc = "maxdepth_done" =>
        \A s \in 1..NCols(data) :
            Valid(Column(data, s)) = {} => isnan(h[s])

-----------------------------------------------------------------------------
(* extrap_sec *)

\* C4 as amended: the returned grid is, cell by cell, w1 times the row pass
\* (each depth row fitted against dist) plus w2 times the column pass (each
\* station column fitted against depth).
C4_W1WeighsRowPass ==
    pc = "extrap_done" =>
        /\ new_data1 = RowPass
        /\ Transpose(new_data2) = ColPass
        /\ new_data = Weighted(w1, RowPass, w2, ColPass)

\* C4, witness: a returned cell is finite and the two readings of the
\* weights give different values for it.
C4_PassesDiffer ==
    /\ pc = "extrap_done"
    /\ \E i \in 1..NRows(data) : \E j \in 1..NCols(data) :
          /\ IsFinite(new_data[i][j])
          /\ new_data[i][j] # Weighted(w1, ColPass, w2, RowPass)[i][j]

\* C4 as stated: the returned grid is w1 times the column pass plus w2 times
\* the row pass.
C4_W1WeighsColumnPass ==
    pc = "extrap_done" => new_data = Weighted(w1, ColPass, w2, RowPass)

\* C5: a row (a column) with exactly one valid value v becomes, in its pass,
\* a row (column) of the same length whose every entry is v.
C5_SingleValueBroadcast ==
    /\ RowsDone =>
          \A i \in 1..NRows(data) :
              Cardinality(Valid(data[i])) = 1 =>
                 /\ Len(new_data1[i]) = Len(data[i])
                 /\ \A k \in 1..Len(new_data1[i]) :
                       \A v \in Valid(data[i]) : new_data1[i][k] = data[i][v]
    /\ ColsDone =>
          \A j \in 1..NCols(data) :
              Cardinality(Valid(Column(data, j))) = 1 =>
                 /\ Len(new_data2[j]) = NRows(data)
                 /\ \A k \in 1..Len(new_data2[j]) :
                       \A v \in Valid(Column(data, j)) :
                           new_data2[j][k] = data[v][j]

\* C5, witness: both passes have run on a grid with a row whose only value
\* is at the second of three or more stations and a column whose only value
\* is at the deepest level.
C5_SingleValueSeen ==
    /\ pc = "extrap_blend"
    /\ \E i \in 1..NRows(data) :
          /\ NCols(data) >= 3
          /\ Valid(data[i]) = {2}
          /\ IsFinite(data[i][2])
    /\ \E j \in 1..NCols(data) :
          /\ Valid(Column(data, j)) = {NRows(data)}
          /\ IsFinite(data[NRows(data)][j])

\* C6: a row (a column) with at least two valid points comes out of its pass
\* with every entry finite, also when stations share a cumulative distance.
C6_FullyPopulated ==
    /\ RowsDone =>
          \A i \in 1..NRows(data) :
              Cardinality(Valid(data[i])) >= 2 =>
                 \A k \in 1..Len(new_data1[i]) : IsFinite(new_data1[i][k])
    /\ ColsDone =>
          \A j \in 1..NCols(data) :
              Cardinality(Valid(Column(data, j))) >= 2 =>
                 \A k \in 1..Len(new_data2[j]) : IsFinite(new_data2[j][k])

\* C7: with w1 = 1 and w2 = 0, R = extrap_sec(G) and R2 = extrap_sec(R) agree
\* with each other and with G at every coordinate that is valid in G and lies
\* strictly inside the valid range of its row.
C7_RerunKeepsInterior ==
    (pc = "extrap_done" /\ Len(results) = 2 /\ w1 = R(1) /\ w2 = R(0)) =>
        \A i \in 1..NRows(G0) : \A j \in 1..NCols(G0) :
            (~isnan(G0[i][j]) /\ StrictlyInside(G0[i], j)) =>
                /\ results[2][i][j] = results[1][i][j]
                /\ results[1][i][j] = G0[i][j]

\* C10: for distinct distances and distinct depths the returned grid has the
\* shape of the input, and a cell is the no-value marker exactly when its row
\* or its column has no valid point, a weight of 0 included; when every row
\* and every column has a valid point (the 5 by 3 triangle grid with weights
\* 0.97 and 0.03 among them) every cell is finite.
C10_ResidualGaps ==
    (pc = "extrap_done" /\ Distinct(dist) /\ Distinct(index)) =>
        /\ NRows(new_data) = NRows(data)
        /\ \A i \in 1..NRows(data) :
              /\ Len(new_data[i]) = Len(data[i])
              /\ \A j \in 1..NCols(data) :
                    /\ isnan(new_data[i][j]) <=>
                          (Valid(data[i]) = {} \/ Valid(Column(data, j)) = {})
                    /\ ~isnan(new_data[i][j]) => IsFinite(new_data[i][j])
        /\ (data = TriangleGrid /\ w1 = Norm(97, 100) /\ w2 = Norm(3, 100)) =>
              \A i \in 1..5 : \A j \in 1..3 : IsFinite(new_data[i][j])

\* C10, witness: w2 = 0, a station column without any value, and a cell the
\* row pass filled that is the no-value marker in the returned grid.
C10_ZeroWeightGap ==
    /\ pc = "extrap_done" /\ Distinct(dist) /\ Distinct(index)
    /\ w2 = R(0)
    /\ \E i \in 1..NRows(data) : \E j \in 1..NCols(data) :
          /\ Valid(Column(data, j)) = {}
          /\ Cardinality(Valid(data[i])) >= 2
          /\ IsFinite(new_data1[i][j])
          /\ isnan(new_data[i][j])

-----------------------------------------------------------------------------
(* gen_topomask *)

\* C8 as amended: the resampled distances start at 0, rise in steps of dx,
\* and end at the first multiple of dx that is not below max(DistanceAxis):
\* the last sample is max(DistanceAxis) when that is a multiple of dx and
\* otherwise lies less than dx beyond it.
C8_SamplesCoverMax ==
    pc = "topomask_done" =>
        /\ Len(xm) >= 1
        /\ xm[1] = R(0)
        /\ \A k \in 1..(Len(xm) - 1) : xm[k + 1] = Add(xm[k], dx)
        /\ ~Less(LastSample, SeqMax(cumdist(legs)))
        /\ Less(LastSample, Add(SeqMax(cumdist(legs)), dx))
        /\ (\E m \in 0..Len(xm) : Mul(R(m), dx) = SeqMax(cumdist(legs)))
              => LastSample = SeqMax(cumdist(legs))

\* C8, witness: three or more samples, the last beyond max(DistanceAxis).
C8_SampleBeyondMax ==
    /\ pc = "topomask_done"
    /\ Len(xm) >= 3
    /\ Less(SeqMax(cumdist(legs)), LastSample)

\* C8 as stated: the resampled distances start at 0, rise in steps of dx and
\* end exactly at max(DistanceAxis), with no sample beyond it.
C8_SamplesEndAtMax ==
    pc = "topomask_done" =>
        /\ Len(xm) >= 1
        /\ xm[1] = R(0)
        /\ \A k \in 1..(Len(xm) - 1) : xm[k + 1] = Add(xm[k], dx)
        /\ LastSample = SeqMax(cumdist(legs))
        /\ \A k \in 1..Len(xm) : ~Less(SeqMax(cumdist(legs)), xm[k])

\* C9: every resampled distance beyond the last station's cumulative distance
\* gets exactly the last station's converted depth, and the two returned
\* sequences have the same length.
C9_FlatBeyondLastStation ==
    pc = "topomask_done" =>
        /\ Len(hm) = Len(xm)
        /\ \A k \in 1..Len(xm) :
              Less(LastStation, xm[k]) => hm[k] = neg_z_from_p(h[Len(h)])

\* C9, witness: a sample lies beyond the last station, whose depth differs
\* from its neighbour's, so a linear continuation would differ.
C9_QueryBeyondLastStation ==
    /\ pc = "topomask_done"
    /\ h[Len(h)] # h[Len(h) - 1]
    /\ legs[Len(legs)] > 0
    /\ \E k \in 1..Len(xm) : Less(LastStation, xm[k])

=============================================================================
